---------------------------- MODULE Spec2Model ----------------------------
(***************************************************************************)
(* A model of the redundancy-resolution pipeline of research_project:      *)
(*   - PathBuilder (motion_planning/graph_based_optimum.py): the layered   *)
(*     configuration graph, the shortest-path search and the export;       *)
(*   - PybulletServer / CollisionCheck (collision_checking/): the          *)
(*     collision filter and its physics session;                           *)
(*   - match_robot_pose (utilities/preprocessing/edit.py) and run_all.py,  *)
(*     which runs the stages one after another.                            *)
(* Each component has its own specification: the optimizer called on a     *)
(* built graph (Spec), create_graph thread by thread (SpecThreads, and     *)
(* SpecArity on configurations of mixed arity), the constructor reading    *)
(* its files (SpecLoad), the optimizer's __main__ block (SpecMain), the    *)
(* filter pass (SpecFilter), collision_check (SpecSession), the filter's   *)
(* __main__ block (SpecFilterMain), the construction of a PybulletServer   *)
(* (SpecConnect), either stage on its own input (SpecStages),              *)
(* match_robot_pose (SpecEdit) and run_all.py (SpecRunAll).                *)
(* Joint angles are integers here; Python's None and float("inf") are      *)
(* records so that they can be compared with the values they stand beside. *)
(***************************************************************************)
EXTENDS Integers, Sequences, FiniteSets, TLC

(***************************************************************************)
(* Bounds of the model.                                                    *)
(***************************************************************************)
\* the largest number of Points of a Solution Set
MaxPoints == 3
\* the largest number of Configurations of one Point
MaxConfigs == 2
\* the largest iteration count K handed to find_shortest_path
MaxIter == 2
\* the largest number of Points of a Solution Set handed to the collision filter
MaxFilterPoints == 2

\* The candidate joint-angle tuples (fixed arity) the IK producer may emit.
Configs == { <<0, 0, 0>>, <<1, 2, -3>>, <<1, 0, 0>> }
\* The lift heights the metadata may carry.
LiftHeights == { 5 }
\* The candidates handed to the collision filter (the robot's full joint arity).
Candidates == { <<0, 0, 0>>, <<1, 2, -3>> }
\* The static obstacle bodies of the scene, as load_collision_meshes lists them.
SceneMeshes == <<1, 2>>
\* Closest-point distances between the robot and an obstacle body:
\* penetrating, touching, apart.
Distances == { -1, 0, 1 }

(***************************************************************************)
(* Python values.                                                          *)
(***************************************************************************)
\* float("inf") and a finite cost
Inf == [finite |-> FALSE, val |-> 0]
Fin(n) == [finite |-> TRUE, val |-> n]
\* the comparison that lets every candidate through
LessThanAlways(a, b) == TRUE

\* path_length <= shortest_path_length in place of <
LessThanOrEqual(a, b) == a.finite /\ ((~b.finite) \/ a.val <= b.val)

\* a < b on costs, a finite
LessThan(a, b) == (~b.finite) \/ a.val < b.val

\* None and a list of node ids
NonePath == [some |-> FALSE, ids |-> <<>>]
SomePath(p) == [some |-> TRUE, ids |-> p]

\* iterations=None and iterations=K
NoneIter == [none |-> TRUE, n |-> 0]
Iter(K) == [none |-> FALSE, n |-> K]

\* the outcome of a call that raised nx.NetworkXNoPath
NoPath == [raised |-> TRUE, length |-> 0, path |-> <<>>]
Found(d, p) == [raised |-> FALSE, length |-> d, path |-> p]

Abs(x) == IF x < 0 THEN -x ELSE x

RECURSIVE SortedSeq(_)
\* the elements of a finite set of integers, ascending
SortedSeq(S) ==
    IF S = {} THEN <<>>
    ELSE LET m == CHOOSE x \in S : \A y \in S : x <= y
         IN <<m>> \o SortedSeq(S \ {m})

RECURSIVE SumLens(_, _)
\* the number of configurations in the first n Points of pts
SumLens(pts, n) == IF n = 0 THEN 0 ELSE SumLens(pts, n - 1) + Len(pts[n])

VARIABLES
    points,     \* self.points: a list of Points, each a list of references to configuration lists
    heap,       \* the configuration list objects: reference -> joint values
    lift,       \* self.lift
    output_path,\* whether self.output_path is set (load_collision_free_solutions sets it)
    nodes,      \* graph nodes: id -> [configuration, point]
    edges,      \* graph edges: <<u, v>> -> weight
    pc,         \* where the PathBuilder's caller stands
    caller,     \* the entry point in use: "find" or "find_and_save"
    iterations, \* the iterations argument of find_shortest_path
    it,         \* pairs evaluated so far by the search loop
    shortest_path,             \* find_shortest_path's local shortest_path
    shortest_path_length,      \* find_shortest_path's local shortest_path_length
    self_shortest_path,        \* self.shortest_path
    self_shortest_path_length, \* self.shortest_path_length
    ret,        \* what find_shortest_path returned
    shortest_path_configurations, \* build_path_to_json's list of that name (references)
    file,       \* the JSON written to self.output_path
    fault,      \* the exception that ended the run, "none" if none
    tried,      \* the (start_node, end_node) pairs the search loop has evaluated, in order
    futures,    \* create_graph's futures: the edge-building tasks submitted to the pool
    interrupt,  \* the KeyboardInterrupt the __main__ block caught, if any
    artifacts,  \* the artifact files PathBuilder(data_path) finds on disk
    original,   \* the joint values each configuration list held when it was handed over
    progress,   \* the lengths of the "found a shorter path" lines printed by the search
    solutions,      \* CollisionCheck.solutions: the Solution Set to filter
    solutions_path, \* whether CollisionCheck.solutions_path is set (from_solutions leaves it None)
    clearance,      \* the scene: joint state -> obstacle body -> closest-point distance
    session,        \* the physics session: "none", "connected", "disconnected"
    robot_joints,   \* the simulated robot's joint state, joint index -> angle
    collision_meshes,         \* PybulletServer.collision_meshes
    collision_free_solutions, \* CollisionCheck.collision_free_solutions
    write_output,   \* the write_output argument of collision_check
    outfile,        \* the collision_free_solutions JSON written
    fpc,            \* where collision_check stands
    ffault,         \* the exception that left collision_check, "none" if none
    empty_points_indices, \* the list of that name in the filter's __main__ block
    debug,          \* PybulletServer.debug, the constructor's debug argument
    GUI,            \* PybulletServer.GUI, the constructor's gui argument
    available,      \* the connection modes the machine can open, per connection attempt
    attempts,       \* the modes passed to p.connect, in order
    stage,          \* the stage run_all.py is at
    returncodes,    \* the return codes of the stages run_all.py has run, in order
    earlier_run,    \* whether an earlier run left a collision-free-solutions file
    consumed,       \* the collision-free-solutions file the path optimizer stage loaded
    nested_solutions,    \* match_robot_pose's argument of that name
    starting_config_rad, \* match_robot_pose's argument of that name
    tolerance,           \* match_robot_pose's argument of that name
    njoints,             \* match_robot_pose's argument joints
    cleaned_solutions,   \* match_robot_pose's result
    epc                  \* where the call of match_robot_pose stands

fvars == <<solutions, solutions_path, clearance, session, robot_joints, collision_meshes,
           collision_free_solutions, write_output, outfile, fpc, ffault,
           empty_points_indices>>

pvars == <<points, heap, lift, output_path, nodes, edges, pc, caller, iterations,
           it, shortest_path, shortest_path_length, self_shortest_path,
           self_shortest_path_length, ret, shortest_path_configurations, file, fault,
           tried, futures, interrupt, artifacts, original, progress>>

\* PybulletServer's constructor arguments and connection attempts
cvars == <<debug, GUI, available, attempts>>

\* run_all.py
rvars == <<stage, returncodes, earlier_run, consumed>>

\* edit.py
evars == <<nested_solutions, starting_config_rad, tolerance, njoints, cleaned_solutions, epc>>

xvars == <<cvars, rvars, evars>>

vars == <<pvars, fvars, xvars>>

(***************************************************************************)
(* create_graph                                                            *)
(***************************************************************************)
RECURSIVE AddNodes(_, _)
\* the nodes in the order G.add_node numbers them, from Point pi on
AddNodes(pts, pi) ==
    IF pi > Len(pts) THEN <<>>
    ELSE [j \in 1..Len(pts[pi]) |-> [configuration |-> pts[pi][j], point |-> pi - 1]]
         \o AddNodes(pts, pi + 1)

\* create_graph with node_id started at 1
GraphNodesFromOne(pts) ==
    LET l == AddNodes(pts, 1)
    IN [id \in 1..Len(l) |-> l[id]]

\* node_id starts at 0 and is incremented after each add_node
GraphNodes(pts) ==
    LET l == AddNodes(pts, 1)
    IN [id \in 0..(Len(l) - 1) |-> l[id + 1]]

RECURSIVE SumSigned(_, _, _)
SumSigned(c1, c2, k) ==
    IF k = 0 THEN 0 ELSE SumSigned(c1, c2, k - 1) + (c1[k] - c2[k])

\* the weight with the differences summed as they are, no absolute value
calculate_weight_signed(config1, config2) == SumSigned(config1, config2, Len(config1))

RECURSIVE SumAbs(_, _, _)
SumAbs(c1, c2, k) ==
    IF k = 0 THEN 0 ELSE SumAbs(c1, c2, k - 1) + Abs(c1[k] - c2[k])

\* np.linalg.norm(np.array(config1) - np.array(config2), ord=1)
calculate_weight(config1, config2) == SumAbs(config1, config2, Len(config1))

\* a rung taken with >= in place of ==: the layer and every layer after it
RungFrom(G, point_index) == { n \in DOMAIN G : G[n].point >= point_index }

\* the nodes of one layer, in G.nodes order
Rung(G, point_index) == { n \in DOMAIN G : G[n].point = point_index }

\* add_edges pairing the k-th node of one layer with the k-th node of the next
add_edges_zip(G, h, current_rung, next_rung) ==
    LET a == SortedSeq(current_rung)
        b == SortedSeq(next_rung)
        n == IF Len(a) < Len(b) THEN Len(a) ELSE Len(b)
    IN [e \in { <<a[k], b[k]>> : k \in 1..n } |->
           calculate_weight(h[G[e[1]].configuration], h[G[e[2]].configuration])]

\* add_edges(G, current_rung, next_rung): the edges one task adds
add_edges(G, h, current_rung, next_rung) ==
    [e \in current_rung \X next_rung |->
        calculate_weight(h[G[e[1]].configuration], h[G[e[2]].configuration])]

RECURSIVE SubmitAllButLast(_, _, _, _)
\* the tasks submitted for range(len(points) - 2): the last layer pair left out
SubmitAllButLast(G, h, npoints, point_index) ==
    IF point_index >= npoints - 2 THEN << >>
    ELSE add_edges(G, h, Rung(G, point_index), Rung(G, point_index + 1))
         @@ SubmitAllButLast(G, h, npoints, point_index + 1)

RECURSIVE SubmitAll(_, _, _, _)
\* the edges of the tasks for point_index in range(len(points) - 1), all finished
SubmitAll(G, h, npoints, point_index) ==
    IF point_index >= npoints - 1 THEN << >>
    ELSE add_edges(G, h, Rung(G, point_index), Rung(G, point_index + 1))
         @@ SubmitAll(G, h, npoints, point_index + 1)

GraphEdges(G, h, npoints) == SubmitAll(G, h, npoints, 0)

(***************************************************************************)
(* networkx's Dijkstra (_dijkstra_multisource with one source and a        *)
(* target), as find_shortest_path calls it.                                *)
(***************************************************************************)
\* G._succ[v]: the successors of v in the order their edges were added
Succ(E, v) == SortedSeq({ u \in { e[2] : e \in DOMAIN E } : <<v, u>> \in DOMAIN E })

RECURSIVE Relax(_, _, _, _, _)
\* for u, e in G_succ[v].items(): ... from the k-th successor on
Relax(E, v, succs, k, st) ==
    IF k > Len(succs) THEN st
    ELSE LET u == succs[k]
             vu_dist == st.dist[v] + E[<<v, u>>]
         IN IF u \in DOMAIN st.dist
            THEN Relax(E, v, succs, k + 1, st)
            ELSE IF u \notin DOMAIN st.seen \/ vu_dist < st.seen[u]
            THEN Relax(E, v, succs, k + 1,
                       [st EXCEPT !.seen = (u :> vu_dist) @@ @,
                                  !.fringe = @ \cup { <<vu_dist, st.c, u>> },
                                  !.c = @ + 1,
                                  !.paths = (u :> Append(st.paths[v], u)) @@ @])
            ELSE Relax(E, v, succs, k + 1, st)

RECURSIVE DijkstraLoop(_, _, _)
\* while fringe: pop the entry least by (distance, push order); settle; relax
DijkstraLoop(E, target, st) ==
    IF st.fringe = {} THEN st
    ELSE LET top == CHOOSE x \in st.fringe : \A y \in st.fringe :
                        x[1] < y[1] \/ (x[1] = y[1] /\ x[2] <= y[2])
             v == top[3]
             popped == [st EXCEPT !.fringe = @ \ {top}]
         IN IF v \in DOMAIN st.dist THEN DijkstraLoop(E, target, popped)
            ELSE LET settled == [popped EXCEPT !.dist = (v :> top[1]) @@ @]
                 IN IF v = target THEN settled
                    ELSE DijkstraLoop(E, target, Relax(E, v, Succ(E, v), 1, settled))

Dijkstra(E, source, target) ==
    DijkstraLoop(E, target,
                 [dist |-> << >>, seen |-> (source :> 0),
                  fringe |-> { <<0, 0, source>> }, c |-> 1,
                  paths |-> (source :> <<source>>)])

\* the length with every edge counted as 1, the weight attribute not read
dijkstra_hop_count(E, source, target) ==
    IF source = target THEN Found(0, <<>>)
    ELSE LET st == Dijkstra([e \in DOMAIN E |-> 1], source, target)
         IN IF target \in DOMAIN st.dist THEN Found(st.dist[target], <<>>) ELSE NoPath

\* nx.dijkstra_path_length(graph, start_node, end_node)
dijkstra_path_length(E, source, target) ==
    IF source = target THEN Found(0, <<>>)
    ELSE LET st == Dijkstra(E, source, target)
         IN IF target \in DOMAIN st.dist THEN Found(st.dist[target], <<>>) ELSE NoPath

\* the path cut down to its two ends
dijkstra_path_ends(E, source, target) ==
    IF source = target THEN Found(0, <<target>>)
    ELSE LET st == Dijkstra(E, source, target)
         IN IF target \in DOMAIN st.dist
            THEN Found(st.dist[target], <<source, target>>) ELSE NoPath

\* nx.dijkstra_path(graph, start_node, end_node)
dijkstra_path(E, source, target) ==
    IF source = target THEN Found(0, <<target>>)
    ELSE LET st == Dijkstra(E, source, target)
         IN IF target \in DOMAIN st.dist
            THEN Found(st.dist[target], st.paths[target]) ELSE NoPath

(***************************************************************************)
(* The PathBuilder: construction, find_shortest_path, build_path_to_json.  *)
(***************************************************************************)
Shapes == UNION { [1..n -> 0..MaxConfigs] : n \in 0..MaxPoints }

RECURSIVE SumSizes(_, _)
SumSizes(shape, n) == IF n = 0 THEN 0 ELSE SumSizes(shape, n - 1) + shape[n]

\* a Solution Set of the given shape, every configuration a list object of its own
FreshPoints(shape) ==
    [i \in 1..Len(shape) |-> [j \in 1..shape[i] |-> SumSizes(shape, i - 1) + j]]

NoRet == [set |-> FALSE, path |-> NonePath, length |-> Inf]
NoFile == [written |-> FALSE, data |-> <<>>]
\* no KeyboardInterrupt has been caught
NoInterrupt == [raised |-> FALSE, at |-> "none"]
\* no artifact file is read: the Solution Set is handed over in memory
NoArtifacts == [metadata |-> "none", solutions |-> "none", lift_height |-> 0]

PathInit ==
    /\ \E shape \in Shapes :
         /\ points = FreshPoints(shape)
         /\ heap \in [1..SumSizes(shape, Len(shape)) -> Configs]
    /\ original = heap
    /\ lift \in LiftHeights
    /\ output_path \in BOOLEAN
    /\ nodes = << >>
    /\ edges = << >>
    /\ pc = "new"
    /\ caller = "none"
    /\ iterations = NoneIter
    /\ it = 0
    /\ shortest_path = NonePath
    /\ shortest_path_length = Inf
    /\ self_shortest_path = NonePath
    /\ self_shortest_path_length = Inf
    /\ ret = NoRet
    /\ shortest_path_configurations = <<>>
    /\ file = NoFile
    /\ fault = "none"
    /\ tried = <<>>
    /\ futures = <<>>
    /\ interrupt = NoInterrupt
    /\ progress = <<>>

\* PathBuilder(data_path) / PathBuilder.from_solutions(solutions): the graph is built
Construct ==
    /\ pc = "new"
    /\ nodes' = GraphNodes(points)
    /\ edges' = GraphEdges(nodes', heap, Len(points))
    /\ pc' = "ready"
    /\ UNCHANGED <<progress, futures, interrupt, artifacts, original, points, heap, lift, output_path, caller, iterations, it, tried, shortest_path, shortest_path_length,
                   self_shortest_path, self_shortest_path_length, ret, shortest_path_configurations, file, fault>>
    /\ UNCHANGED <<fvars, xvars>>

\* first_point_nodes and last_point_nodes, as lists
first_point_nodes == SortedSeq(Rung(nodes, 0))
last_point_nodes == SortedSeq(Rung(nodes, Len(points) - 1))

\* find_shortest_path(iterations) is entered, directly or from find_shortest_path_and_save
CallFind ==
    /\ pc = "ready"
    /\ \E c \in {"find", "find_and_save"} : caller' = c
    /\ \E K \in {NoneIter} \cup { Iter(n) : n \in 1..MaxIter } : iterations' = K
    /\ it' = 0
    /\ tried' = <<>>
    /\ progress' = <<>>
    /\ shortest_path' = NonePath
    /\ shortest_path_length' = Inf
    /\ pc' = "search"
    /\ UNCHANGED <<futures, interrupt, artifacts, original, points, heap, lift, output_path, nodes, edges, self_shortest_path, self_shortest_path_length,
                   ret, shortest_path_configurations, file, fault>>
    /\ UNCHANGED <<fvars, xvars>>

\* the loop body with the best path dropped when a pair has no path
EvaluateForgetting(start_node, end_node) ==
    LET r == dijkstra_path_length(edges, start_node, end_node)
    IN /\ tried' = Append(tried, <<start_node, end_node>>)
       /\ IF r.raised
          THEN /\ shortest_path_length' = Inf
               /\ shortest_path' = NonePath
               /\ UNCHANGED <<self_shortest_path, progress>>
          ELSE IF LessThan(Fin(r.length), shortest_path_length)
          THEN /\ shortest_path_length' = Fin(r.length)
               /\ shortest_path' = SomePath(dijkstra_path(edges, start_node, end_node).path)
               /\ self_shortest_path' = shortest_path'
               /\ progress' = Append(progress, r.length)
          ELSE UNCHANGED <<shortest_path, shortest_path_length, self_shortest_path, progress>>

\* the body of either loop: the try block around the two Dijkstra calls
Evaluate(start_node, end_node) ==
    LET r == dijkstra_path_length(edges, start_node, end_node)
    IN /\ tried' = Append(tried, <<start_node, end_node>>)
       /\ IF (~r.raised) /\ LessThan(Fin(r.length), shortest_path_length)
          THEN /\ shortest_path_length' = Fin(r.length)
               /\ shortest_path' = SomePath(dijkstra_path(edges, start_node, end_node).path)
               /\ self_shortest_path' = shortest_path'
               /\ progress' = Append(progress, r.length)
          ELSE UNCHANGED <<shortest_path, shortest_path_length, self_shortest_path, progress>>

\* one pass of the exhaustive loops: for i, start_node ...: for j, end_node ...
ExhaustiveStep ==
    /\ pc = "search"
    /\ iterations.none
    /\ it < Len(first_point_nodes) * Len(last_point_nodes)
    /\ Evaluate(first_point_nodes[(it \div Len(last_point_nodes)) + 1],
                last_point_nodes[(it % Len(last_point_nodes)) + 1])
    /\ it' = it + 1
    /\ UNCHANGED <<futures, interrupt, artifacts, original, points, heap, lift, output_path, nodes, edges, pc, caller,
                   iterations, self_shortest_path_length, ret, shortest_path_configurations, file, fault>>
    /\ UNCHANGED <<fvars, xvars>>

\* one pass of the sampling loop: for i in range(iterations)
SamplingStep ==
    /\ pc = "search"
    /\ ~iterations.none
    /\ it < iterations.n
    /\ first_point_nodes # <<>>
    /\ last_point_nodes # <<>>
    /\ \E s \in 1..Len(first_point_nodes), e \in 1..Len(last_point_nodes) :
         Evaluate(first_point_nodes[s], last_point_nodes[e])
    /\ it' = it + 1
    /\ UNCHANGED <<futures, interrupt, artifacts, original, points, heap, lift, output_path, nodes, edges, pc, caller,
                   iterations, self_shortest_path_length, ret, shortest_path_configurations, file, fault>>
    /\ UNCHANGED <<fvars, xvars>>

\* random.choice of an empty list raises IndexError, which nothing catches
SamplingFault ==
    /\ pc = "search"
    /\ ~iterations.none
    /\ it < iterations.n
    /\ first_point_nodes = <<>> \/ last_point_nodes = <<>>
    /\ fault' = "IndexError"
    /\ pc' = "fault"
    /\ UNCHANGED <<progress, futures, interrupt, artifacts, original, points, heap, lift, output_path, nodes, edges, caller, iterations,
                   it, tried, shortest_path, shortest_path_length, self_shortest_path, self_shortest_path_length, ret, shortest_path_configurations, file>>
    /\ UNCHANGED <<fvars, xvars>>

\* the exhaustive loops, run through from pair k on, as a function of the graph:
\* the shortest_path_length they end with
RECURSIVE ExhaustiveFrom(_, _)
ExhaustiveFrom(k, best) ==
    IF k >= Len(first_point_nodes) * Len(last_point_nodes) THEN best
    ELSE LET r == dijkstra_path_length(edges,
                        first_point_nodes[(k \div Len(last_point_nodes)) + 1],
                        last_point_nodes[(k % Len(last_point_nodes)) + 1])
         IN ExhaustiveFrom(k + 1, IF (~r.raised) /\ LessThan(Fin(r.length), best)
                                  THEN Fin(r.length) ELSE best)

\* the cost find_shortest_path(iterations=None) reports on the graph at hand
ExhaustiveLength == ExhaustiveFrom(0, Inf)

\* the search left after the first pair evaluated
LoopDoneAfterFirst ==
    IF iterations.none
    THEN it >= 1 \/ it >= Len(first_point_nodes) * Len(last_point_nodes)
    ELSE it >= iterations.n

LoopDone ==
    IF iterations.none
    THEN it >= Len(first_point_nodes) * Len(last_point_nodes)
    ELSE it >= iterations.n

\* return shortest_path, shortest_path_length; find_shortest_path_and_save, and
\* the __main__ block alike, store both in self and go on to build_path_to_json
Return ==
    /\ pc = "search"
    /\ LoopDone
    /\ ret' = [set |-> TRUE, path |-> shortest_path, length |-> shortest_path_length]
    /\ IF caller \in {"find_and_save", "main"}
       THEN /\ self_shortest_path' = shortest_path
            /\ self_shortest_path_length' = shortest_path_length
            /\ pc' = "export"
       ELSE /\ UNCHANGED <<self_shortest_path, self_shortest_path_length>>
            /\ pc' = "returned"
    /\ UNCHANGED <<progress, futures, interrupt, artifacts, original, points, heap, lift, output_path, nodes, edges, caller, iterations,
                   it, tried, shortest_path, shortest_path_length, shortest_path_configurations, file, fault>>
    /\ UNCHANGED <<fvars, xvars>>

\* build_path_to_json: for node in self.shortest_path, with self.shortest_path None
ExportFault ==
    /\ pc = "export"
    /\ ~self_shortest_path.some
    /\ fault' = "TypeError"
    /\ pc' = "fault"
    /\ UNCHANGED <<progress, futures, interrupt, artifacts, original, points, heap, lift, output_path, nodes, edges, caller, iterations,
                   it, tried, shortest_path, shortest_path_length, self_shortest_path, self_shortest_path_length, ret, shortest_path_configurations, file>>
    /\ UNCHANGED <<fvars, xvars>>

\* the loop pass with the lift appended at the end of the configuration
ExportStepAppend ==
    /\ pc = "export"
    /\ self_shortest_path.some
    /\ Len(shortest_path_configurations) < Len(self_shortest_path.ids)
    /\ LET node == self_shortest_path.ids[Len(shortest_path_configurations) + 1]
           current_configuration == nodes[node].configuration
       IN /\ heap' = [heap EXCEPT ![current_configuration] = @ \o <<lift>>]
          /\ shortest_path_configurations' = Append(shortest_path_configurations, current_configuration)
    /\ UNCHANGED <<progress, futures, interrupt, artifacts, original, points, lift, output_path, nodes, edges, pc, caller, iterations,
                   it, tried, shortest_path, shortest_path_length, self_shortest_path, self_shortest_path_length, ret, file, fault>>
    /\ UNCHANGED <<fvars, xvars>>

\* the loop pass with the lift inserted into every configuration of the node's Point
ExportStepWholePoint ==
    /\ pc = "export"
    /\ self_shortest_path.some
    /\ Len(shortest_path_configurations) < Len(self_shortest_path.ids)
    /\ LET node == self_shortest_path.ids[Len(shortest_path_configurations) + 1]
           current_configuration == nodes[node].configuration
           point == points[nodes[node].point + 1]
       IN /\ heap' = [ref \in DOMAIN heap |->
                        IF \E j \in 1..Len(point) : point[j] = ref
                        THEN <<lift>> \o heap[ref] ELSE heap[ref]]
          /\ shortest_path_configurations' = Append(shortest_path_configurations, current_configuration)
    /\ UNCHANGED <<progress, futures, interrupt, artifacts, original, points, lift, output_path, nodes, edges, pc, caller, iterations,
                   it, tried, shortest_path, shortest_path_length, self_shortest_path, self_shortest_path_length, ret, file, fault>>
    /\ UNCHANGED <<fvars, xvars>>

\* build_path_to_json: one pass of the loop, the lift inserted in place
ExportStep ==
    /\ pc = "export"
    /\ self_shortest_path.some
    /\ Len(shortest_path_configurations) < Len(self_shortest_path.ids)
    /\ LET node == self_shortest_path.ids[Len(shortest_path_configurations) + 1]
           current_configuration == nodes[node].configuration
       IN /\ heap' = [heap EXCEPT ![current_configuration] = <<lift>> \o @]
          /\ shortest_path_configurations' = Append(shortest_path_configurations, current_configuration)
    /\ UNCHANGED <<progress, futures, interrupt, artifacts, original, points, lift, output_path, nodes, edges, pc, caller, iterations,
                   it, tried, shortest_path, shortest_path_length, self_shortest_path, self_shortest_path_length, ret, file, fault>>
    /\ UNCHANGED <<fvars, xvars>>

\* build_path_to_json: open(self.output_path, "w") and json.dump
ExportWrite ==
    /\ pc = "export"
    /\ self_shortest_path.some
    /\ Len(shortest_path_configurations) = Len(self_shortest_path.ids)
    /\ IF output_path
       THEN /\ file' = [written |-> TRUE,
                        data |-> [k \in 1..Len(shortest_path_configurations) |-> heap[shortest_path_configurations[k]]]]
            /\ pc' = "saved"
            /\ UNCHANGED fault
       ELSE /\ fault' = "AttributeError"
            /\ pc' = "fault"
            /\ UNCHANGED file
    /\ UNCHANGED <<progress, futures, interrupt, artifacts, original, points, heap, lift, output_path, nodes, edges, caller, iterations,
                   it, tried, shortest_path, shortest_path_length, self_shortest_path, self_shortest_path_length, ret, shortest_path_configurations>>
    /\ UNCHANGED <<fvars, xvars>>

PathNext ==
    \/ Construct
    \/ CallFind
    \/ ExhaustiveStep
    \/ SamplingStep
    \/ SamplingFault
    \/ Return
    \/ ExportFault
    \/ ExportStep
    \/ ExportWrite

(***************************************************************************)
(* create_graph step by step: the main thread submits one edge-building    *)
(* task per pair of consecutive layers to the thread pool, the pool's      *)
(* threads run them side by side, and the main thread waits for them.      *)
(***************************************************************************)
\* the number of edges the task of future f adds
TaskSize(f) == Len(f.current_rung) * Len(f.next_rung)

\* the edge added by pass n (from 0) of
\* for node1 in current_rung: for node2 in next_rung
TaskEdge(f, n) ==
    << f.current_rung[(n \div Len(f.next_rung)) + 1], f.next_rung[(n % Len(f.next_rung)) + 1] >>

\* a wait that ends with the first task to finish
AnyFinished(fs) == fs = <<>> \/ \E k \in 1..Len(fs) : fs[k].state = "finished"

\* concurrent.futures.wait(futures), and the executor's shutdown at the end of
\* the with block: every future is done
\* (a future is done when its task has returned or has raised)
AllFinished(fs) == \A k \in 1..Len(fs) : fs[k].state \in {"finished", "failed"}

\* G = nx.DiGraph() and the add_node loops
CreateGraphNodes ==
    /\ pc = "new"
    /\ nodes' = GraphNodes(points)
    /\ edges' = << >>
    /\ futures' = <<>>
    /\ pc' = "submit"
    /\ UNCHANGED <<progress, interrupt, artifacts, original, points, heap, lift, output_path, caller, iterations,
                   it, tried, shortest_path, shortest_path_length, self_shortest_path,
                   self_shortest_path_length, ret, shortest_path_configurations, file, fault>>
    /\ UNCHANGED <<fvars, xvars>>

\* one pass of for point_index in range(len(points) - 1): the two rungs are
\* read off the graph and the task is submitted
Submit ==
    /\ pc = "submit"
    /\ Len(futures) < Len(points) - 1
    /\ LET point_index == Len(futures)
       IN futures' = Append(futures,
                            [current_rung |-> SortedSeq(Rung(nodes, point_index)),
                             next_rung |-> SortedSeq(Rung(nodes, point_index + 1)),
                             state |-> "pending", n |-> 0])
    /\ UNCHANGED <<progress, interrupt, artifacts, original, points, heap, lift, output_path, nodes, edges, pc, caller,
                   iterations, it, tried, shortest_path, shortest_path_length, self_shortest_path,
                   self_shortest_path_length, ret, shortest_path_configurations, file, fault>>
    /\ UNCHANGED <<fvars, xvars>>

\* a pool thread takes a submitted task up
TaskStart ==
    /\ pc = "submit"
    /\ \E k \in 1..Len(futures) :
         /\ futures[k].state = "pending"
         /\ futures' = [futures EXCEPT ![k].state = "running"]
    /\ UNCHANGED <<progress, interrupt, artifacts, original, points, heap, lift, output_path, nodes, edges, pc, caller,
                   iterations, it, tried, shortest_path, shortest_path_length, self_shortest_path,
                   self_shortest_path_length, ret, shortest_path_configurations, file, fault>>
    /\ UNCHANGED <<fvars, xvars>>

\* one pass of add_edges' inner loop in one task: G.add_edge(node1, node2, weight=weight)
TaskAddEdge ==
    /\ pc = "submit"
    /\ \E k \in 1..Len(futures) :
         /\ futures[k].state = "running"
         /\ futures[k].n < TaskSize(futures[k])
         /\ LET e == TaskEdge(futures[k], futures[k].n)
            IN Len(heap[nodes[e[1]].configuration]) = Len(heap[nodes[e[2]].configuration])
         /\ LET e == TaskEdge(futures[k], futures[k].n)
                weight == calculate_weight(heap[nodes[e[1]].configuration],
                                           heap[nodes[e[2]].configuration])
            IN edges' = (e :> weight) @@ edges
         /\ futures' = [futures EXCEPT ![k].n = @ + 1]
    /\ UNCHANGED <<progress, interrupt, artifacts, original, points, heap, lift, output_path, nodes, pc, caller,
                   iterations, it, tried, shortest_path, shortest_path_length, self_shortest_path,
                   self_shortest_path_length, ret, shortest_path_configurations, file, fault>>
    /\ UNCHANGED <<fvars, xvars>>

\* calculate_weight raises in one task: np.array(config1) - np.array(config2) on
\* two configurations of different arity is a ValueError, which ends add_edges;
\* the executor stores the exception in the task's future
TaskFail ==
    /\ pc = "submit"
    /\ \E k \in 1..Len(futures) :
         /\ futures[k].state = "running"
         /\ futures[k].n < TaskSize(futures[k])
         /\ LET e == TaskEdge(futures[k], futures[k].n)
            IN Len(heap[nodes[e[1]].configuration]) # Len(heap[nodes[e[2]].configuration])
         /\ futures' = [futures EXCEPT ![k].state = "failed"]
    /\ UNCHANGED <<progress, interrupt, artifacts, original, points, heap, lift, output_path, nodes, edges, pc, caller,
                   iterations, it, tried, shortest_path, shortest_path_length, self_shortest_path,
                   self_shortest_path_length, ret, shortest_path_configurations, file, fault>>
    /\ UNCHANGED <<fvars, xvars>>

\* add_edges returns in one task: its future is done
TaskFinish ==
    /\ pc = "submit"
    /\ \E k \in 1..Len(futures) :
         /\ futures[k].state = "running"
         /\ futures[k].n = TaskSize(futures[k])
         /\ futures' = [futures EXCEPT ![k].state = "finished"]
    /\ UNCHANGED <<progress, interrupt, artifacts, original, points, heap, lift, output_path, nodes, edges, pc, caller,
                   iterations, it, tried, shortest_path, shortest_path_length, self_shortest_path,
                   self_shortest_path_length, ret, shortest_path_configurations, file, fault>>
    /\ UNCHANGED <<fvars, xvars>>

\* the submitting loop is over, concurrent.futures.wait(futures) and the with
\* block let the main thread through, and create_graph returns G
CreateGraphReturn ==
    /\ pc = "submit"
    /\ Len(futures) >= Len(points) - 1
    /\ AllFinished(futures)
    /\ pc' = "ready"
    /\ UNCHANGED <<progress, futures, interrupt, artifacts, original, points, heap, lift, output_path, nodes, edges, caller,
                   iterations, it, tried, shortest_path, shortest_path_length, self_shortest_path,
                   self_shortest_path_length, ret, shortest_path_configurations, file, fault>>
    /\ UNCHANGED <<fvars, xvars>>

ThreadsNext ==
    \/ CreateGraphNodes
    \/ Submit
    \/ TaskStart
    \/ TaskAddEdge
    \/ TaskFinish
    \/ CreateGraphReturn

\* create_graph step by step on configurations that need not have one arity
ArityNext ==
    \/ CreateGraphNodes
    \/ Submit
    \/ TaskStart
    \/ TaskAddEdge
    \/ TaskFail
    \/ TaskFinish
    \/ CreateGraphReturn

(***************************************************************************)
(* PathBuilder(data_path): the artifact files, and the __main__ block with *)
(* its KeyboardInterrupt handler.                                          *)
(***************************************************************************)
\* what a FileFinder may meet: a matching file, a directory without one, a
\* directory os.listdir cannot read
ArtifactStates == { "found", "missing", "unreadable" }

\* FileFinder.get_youngest_file: a path (TRUE) or None (FALSE); the exception
\* of an unreadable directory is caught, printed, and None returned
get_youngest_file(state) == state = "found"

\* FileFinder.get_file_by_date with youngest=True
get_file_by_date(state) == get_youngest_file(state)

\* get_metadata: the file's dict, or {} when no file was found
get_metadata(a) ==
    IF get_file_by_date(a.metadata) THEN [lift_height |-> a.lift_height] ELSE << >>

\* self.metadata.get("lift_height", 0)
metadata_get_lift_height(metadata) ==
    IF "lift_height" \in DOMAIN metadata THEN metadata.lift_height ELSE 0

\* PathBuilder.__init__ with a data_path: get_metadata,
\* load_collision_free_solutions (None.split raises AttributeError when no
\* file was found), create_graph
ConstructFromFiles ==
    /\ pc = "new"
    /\ lift' = metadata_get_lift_height(get_metadata(artifacts))
    /\ IF get_file_by_date(artifacts.solutions)
       THEN /\ output_path' = TRUE
            /\ nodes' = GraphNodes(points)
            /\ edges' = GraphEdges(nodes', heap, Len(points))
            /\ pc' = "ready"
            /\ UNCHANGED fault
       ELSE /\ fault' = "AttributeError"
            /\ pc' = "fault"
            /\ UNCHANGED <<output_path, nodes, edges>>
    /\ UNCHANGED <<progress, futures, interrupt, artifacts, original, points, heap, caller, iterations,
                   it, tried, shortest_path, shortest_path_length, self_shortest_path,
                   self_shortest_path_length, ret, shortest_path_configurations, file>>
    /\ UNCHANGED <<fvars, xvars>>

LoadNext == ConstructFromFiles

\* __main__: path_builder.find_shortest_path(iterations=100)
MainCallFind ==
    /\ pc = "ready"
    /\ caller' = "main"
    /\ \E K \in { Iter(n) : n \in 1..MaxIter } : iterations' = K
    /\ it' = 0
    /\ tried' = <<>>
    /\ progress' = <<>>
    /\ shortest_path' = NonePath
    /\ shortest_path_length' = Inf
    /\ pc' = "search"
    /\ UNCHANGED <<futures, interrupt, artifacts, original, points, heap, lift, output_path, nodes, edges,
                   self_shortest_path, self_shortest_path_length,
                   ret, shortest_path_configurations, file, fault>>
    /\ UNCHANGED <<fvars, xvars>>

\* a KeyboardInterrupt arrives somewhere in the try block
Interrupt ==
    /\ pc \in {"new", "ready", "search", "export"}
    /\ ~interrupt.raised
    /\ interrupt' = [raised |-> TRUE, at |-> pc]
    /\ pc' = "interrupted"
    /\ UNCHANGED <<progress, futures, artifacts, original, points, heap, lift, output_path, nodes, edges, caller,
                   iterations, it, tried, shortest_path, shortest_path_length, self_shortest_path,
                   self_shortest_path_length, ret, shortest_path_configurations, file, fault>>
    /\ UNCHANGED <<fvars, xvars>>

\* except KeyboardInterrupt: if path_builder.shortest_path: build_path_to_json.
\* path_builder is still None when the interrupt came before the constructor returned.
Handler ==
    /\ pc = "interrupted"
    /\ IF interrupt.at = "new"
       THEN /\ fault' = "AttributeError"
            /\ pc' = "fault"
            /\ UNCHANGED shortest_path_configurations
       ELSE IF self_shortest_path.some /\ self_shortest_path.ids # <<>>
       THEN /\ shortest_path_configurations' = <<>>
            /\ pc' = "export"
            /\ UNCHANGED fault
       ELSE /\ pc' = "exited"
            /\ UNCHANGED <<shortest_path_configurations, fault>>
    /\ UNCHANGED <<progress, futures, interrupt, artifacts, original, points, heap, lift, output_path, nodes, edges, caller,
                   iterations, it, tried, shortest_path, shortest_path_length, self_shortest_path,
                   self_shortest_path_length, ret, file>>
    /\ UNCHANGED <<fvars, xvars>>

MainNext ==
    \/ ConstructFromFiles
    \/ MainCallFind
    \/ SamplingStep
    \/ SamplingFault
    \/ Return
    \/ ExportFault
    \/ ExportStep
    \/ ExportWrite
    \/ Interrupt
    \/ Handler

(***************************************************************************)
(* The collision filter: PybulletServer and CollisionCheck.collision_check *)
(***************************************************************************)
\* the robot's joint indices; set_robot_configuration starts at 1, skipping joint 0
JointIndices == 0..3

\* the joint state of a freshly loaded robot
RestJoints == [i \in JointIndices |-> 0]

\* set_robot_configuration: resetJointState(robot, i, joint_position) for
\* i, joint_position in enumerate(joint_positions, start=1)
set_robot_configuration(joints, joint_positions) ==
    [i \in JointIndices |->
        IF 1 <= i /\ i <= Len(joint_positions) THEN joint_positions[i] ELSE joints[i]]

\* p.getClosestPoints(robot, mesh, distance): the closest points no farther
\* apart than distance
getClosestPoints(clr, joints, mesh, distance) ==
    IF clr[joints][mesh] <= distance THEN << clr[joints][mesh] >> ELSE << >>

\* single_collision_check: True if any point came back (None, falsy, otherwise)
single_collision_check(clr, joints, mesh) ==
    Len(getClosestPoints(clr, joints, mesh, 0)) > 0

\* list_collision_check over a list of meshes: any(...)
list_collision_check(clr, joints, meshes) ==
    \E k \in 1..Len(meshes) : single_collision_check(clr, joints, meshes[k])

RECURSIVE CullConfigsCheckFirst(_, _, _, _, _, _)
\* the inner loop with the collision test made before the robot is set
CullConfigsCheckFirst(clr, meshes, sols, k, joints, collision_free_configs) ==
    IF k > Len(sols) THEN [configs |-> collision_free_configs, joints |-> joints]
    ELSE LET colliding == list_collision_check(clr, joints, meshes)
             set == set_robot_configuration(joints, sols[k])
         IN CullConfigsCheckFirst(clr, meshes, sols, k + 1, set,
                        IF colliding THEN collision_free_configs
                        ELSE Append(collision_free_configs, sols[k]))

RECURSIVE CullConfigsSetOnce(_, _, _, _, _, _)
\* the inner loop with the robot set to the first configuration only
CullConfigsSetOnce(clr, meshes, sols, k, joints, collision_free_configs) ==
    IF k > Len(sols) THEN [configs |-> collision_free_configs, joints |-> joints]
    ELSE LET set == IF k = 1 THEN set_robot_configuration(joints, sols[k]) ELSE joints
             colliding == list_collision_check(clr, set, meshes)
         IN CullConfigsSetOnce(clr, meshes, sols, k + 1, set,
                        IF colliding THEN collision_free_configs
                        ELSE Append(collision_free_configs, sols[k]))

RECURSIVE CullConfigs(_, _, _, _, _, _)
\* the inner loop of cull_collisions from configuration k on:
\* [configs |-> collision_free_configs, joints |-> the joint state left behind]
CullConfigs(clr, meshes, sols, k, joints, collision_free_configs) ==
    IF k > Len(sols) THEN [configs |-> collision_free_configs, joints |-> joints]
    ELSE LET set == set_robot_configuration(joints, sols[k])
             colliding == list_collision_check(clr, set, meshes)
         IN CullConfigs(clr, meshes, sols, k + 1, set,
                        IF colliding THEN collision_free_configs
                        ELSE Append(collision_free_configs, sols[k]))

RECURSIVE CullPointsDropDead(_, _, _, _, _, _)
\* the outer loop with a Point left out of the output when nothing of it survives
CullPointsDropDead(clr, meshes, pts, sel_point, joints, collision_free) ==
    IF sel_point > Len(pts) THEN [solutions |-> collision_free, joints |-> joints]
    ELSE LET r == CullConfigs(clr, meshes, pts[sel_point], 1, joints, <<>>)
         IN CullPointsDropDead(clr, meshes, pts, sel_point + 1, r.joints,
                       IF r.configs = <<>> THEN collision_free
                       ELSE Append(collision_free, r.configs))

RECURSIVE CullPoints(_, _, _, _, _, _)
\* the outer loop of cull_collisions from Point sel_point on
CullPoints(clr, meshes, pts, sel_point, joints, collision_free) ==
    IF sel_point > Len(pts) THEN [solutions |-> collision_free, joints |-> joints]
    ELSE LET r == CullConfigs(clr, meshes, pts[sel_point], 1, joints, <<>>)
         IN CullPoints(clr, meshes, pts, sel_point + 1, r.joints,
                       Append(collision_free, r.configs))

\* PybulletServer.cull_collisions(points)
cull_collisions(clr, meshes, joints, pts) == CullPoints(clr, meshes, pts, 1, joints, <<>>)

\* the Solution Sets the IK producer may hand to the filter
FilterInputs ==
    UNION { [1..n -> UNION { [1..m -> Candidates] : m \in 0..MaxConfigs }]
            : n \in 0..MaxFilterPoints }

\* the joint states a candidate of full arity puts the robot in
CandidateJoints == { set_robot_configuration(RestJoints, c) : c \in Candidates }

FilterInit ==
    /\ solutions \in FilterInputs
    /\ solutions_path \in BOOLEAN
    /\ clearance \in [CandidateJoints -> [1..Len(SceneMeshes) -> Distances]]
    /\ session = "none"
    /\ robot_joints = RestJoints
    /\ collision_meshes = <<>>
    /\ collision_free_solutions = <<>>
    /\ write_output = FALSE
    /\ outfile = NoFile
    /\ fpc = "start"
    /\ ffault = "none"
    /\ empty_points_indices = <<>>

\* collision_check(write_output): server = PybulletServer(), whose __init__ connects;
\* the __main__ block calls collision_check(write_output=True)
CCConnect ==
    /\ fpc \in {"start", "main"}
    /\ \E w \in (IF fpc = "main" THEN {TRUE} ELSE BOOLEAN) : write_output' = w
    /\ \/ /\ session' = "connected"
          /\ fpc' = "load_robot"
          /\ UNCHANGED ffault
       \/ /\ ffault' = "pybullet.error"
          /\ fpc' = "left"
          /\ UNCHANGED session
    /\ UNCHANGED <<empty_points_indices, solutions, solutions_path, clearance, robot_joints, collision_meshes,
                   collision_free_solutions, outfile>>
    /\ UNCHANGED <<pvars, xvars>>

\* server.load_robot(urdf_path, ...): p.loadURDF, which raises when the file cannot be loaded
CCLoadRobot ==
    /\ fpc = "load_robot"
    /\ \/ /\ robot_joints' = RestJoints
          /\ fpc' = "load_meshes"
          /\ UNCHANGED ffault
       \/ /\ ffault' = "pybullet.error"
          /\ fpc' = "left"
          /\ UNCHANGED robot_joints
    /\ UNCHANGED <<empty_points_indices, solutions, solutions_path, clearance, session, collision_meshes,
                   collision_free_solutions, write_output, outfile>>
    /\ UNCHANGED <<pvars, xvars>>

\* server.load_collision_meshes(collision_path, ...): os.listdir and createCollisionShape may raise
CCLoadMeshes ==
    /\ fpc = "load_meshes"
    /\ \/ /\ collision_meshes' = SceneMeshes
          /\ fpc' = "cull"
          /\ UNCHANGED ffault
       \/ /\ ffault' = "FileNotFoundError"
          /\ fpc' = "left"
          /\ UNCHANGED collision_meshes
    /\ UNCHANGED <<empty_points_indices, solutions, solutions_path, clearance, session, robot_joints,
                   collision_free_solutions, write_output, outfile>>
    /\ UNCHANGED <<pvars, xvars>>

\* self.collision_free_solutions = server.cull_collisions(self.solutions)
CCCull ==
    /\ fpc = "cull"
    /\ LET r == cull_collisions(clearance, collision_meshes, robot_joints, solutions)
       IN /\ collision_free_solutions' = r.solutions
          /\ robot_joints' = r.joints
    /\ fpc' = "write"
    /\ UNCHANGED <<empty_points_indices, solutions, solutions_path, clearance, session, collision_meshes,
                   write_output, outfile, ffault>>
    /\ UNCHANGED <<pvars, xvars>>

\* if write_output: ... self.solutions_path.split ... open(output_path, "w") ... json.dump
CCWrite ==
    /\ fpc = "write"
    /\ IF ~write_output
       THEN /\ fpc' = "disconnect"
            /\ UNCHANGED <<outfile, ffault>>
       ELSE IF ~solutions_path
       THEN /\ ffault' = "AttributeError"
            /\ fpc' = "left"
            /\ UNCHANGED outfile
       ELSE \/ /\ outfile' = [written |-> TRUE, data |-> collision_free_solutions]
               /\ fpc' = "disconnect"
               /\ UNCHANGED ffault
            \/ /\ ffault' = "FileNotFoundError"
               /\ fpc' = "left"
               /\ UNCHANGED outfile
    /\ UNCHANGED <<empty_points_indices, solutions, solutions_path, clearance, session, robot_joints,
                   collision_meshes, collision_free_solutions, write_output>>
    /\ UNCHANGED <<pvars, xvars>>

\* server.disconnect(), the last statement of collision_check
CCDisconnect ==
    /\ fpc = "disconnect"
    /\ session' = "disconnected"
    /\ fpc' = "left"
    /\ UNCHANGED <<empty_points_indices, solutions, solutions_path, clearance, robot_joints, collision_meshes,
                   collision_free_solutions, write_output, outfile, ffault>>
    /\ UNCHANGED <<pvars, xvars>>

\* enumerate(solutions, start=1) in place of enumerate(solutions)
EmptyPointsIndicesFromOne(sols) ==
    SortedSeq({ index \in 1..Len(sols) : sols[index] = <<>> })

\* [index for index, point in enumerate(solutions) if point == []]
EmptyPointsIndices(sols) ==
    SortedSeq({ index \in 0..(Len(sols) - 1) : sols[index + 1] = <<>> })

\* __main__ after collision_check has returned: the dead points are listed
\* and, if there are any, ValueError is raised
DeadPointCheck ==
    /\ fpc = "left"
    /\ ffault = "none"
    /\ empty_points_indices' = EmptyPointsIndices(collision_free_solutions)
    /\ IF empty_points_indices' # <<>>
       THEN ffault' = "ValueError"
       ELSE UNCHANGED ffault
    /\ fpc' = "exit"
    /\ UNCHANGED <<solutions, solutions_path, clearance, session, robot_joints, collision_meshes,
                   collision_free_solutions, write_output, outfile>>
    /\ UNCHANGED <<pvars, xvars>>

FilterMainNext ==
    \/ CCConnect
    \/ CCLoadRobot
    \/ CCLoadMeshes
    \/ CCCull
    \/ CCWrite
    \/ CCDisconnect
    \/ DeadPointCheck

FilterNext ==
    \/ CCConnect
    \/ CCLoadRobot
    \/ CCLoadMeshes
    \/ CCCull
    \/ CCWrite
    \/ CCDisconnect

(***************************************************************************)
(* PybulletServer(debug, gui): the constructor and its connect()           *)
(***************************************************************************)
\* the values the callers pass as debug: False, True and the three display modes
DebugValues == {"False", "True", "show_both", "show_collision", "show_no_collision"}

ConnectionModes == {"DIRECT", "GUI"}

\* the mode connect() asks for: DIRECT if not self.debug and not self.GUI, else GUI
connection_mode == IF debug = "False" /\ ~GUI THEN "DIRECT" ELSE "GUI"

\* PybulletServer.__init__ has set physicsClient, debug and GUI and calls self.connect()
ServerStart ==
    /\ debug \in DebugValues
    /\ GUI \in BOOLEAN
    /\ available \in [1..2 -> SUBSET ConnectionModes]
    /\ attempts = <<>>
    /\ solutions = <<>>
    /\ solutions_path = FALSE
    /\ clearance = << >>
    /\ session = "none"
    /\ robot_joints = RestJoints
    /\ collision_meshes = <<>>
    /\ collision_free_solutions = <<>>
    /\ write_output = FALSE
    /\ outfile = NoFile
    /\ fpc = "connect"
    /\ ffault = "none"
    /\ empty_points_indices = <<>>

\* the try block of connect(): p.connect in the requested mode
ConnectTry ==
    /\ fpc = "connect"
    /\ attempts' = Append(attempts, connection_mode)
    /\ IF connection_mode \in available[1]
       THEN /\ session' = "connected"
            /\ fpc' = "gravity"
       ELSE /\ fpc' = "except"
            /\ UNCHANGED session
    /\ UNCHANGED <<debug, GUI, available>>
    /\ UNCHANGED <<empty_points_indices, solutions, solutions_path, clearance, robot_joints,
                   collision_meshes, collision_free_solutions, write_output, outfile, ffault>>
    /\ UNCHANGED <<pvars, rvars, evars>>

\* the except p.error block of connect(): p.connect once more, under the same condition;
\* a p.error raised here leaves connect() and the constructor
ConnectExcept ==
    /\ fpc = "except"
    /\ attempts' = Append(attempts, connection_mode)
    /\ IF connection_mode \in available[2]
       THEN /\ session' = "connected"
            /\ fpc' = "gravity"
            /\ UNCHANGED ffault
       ELSE /\ ffault' = "pybullet.error"
            /\ fpc' = "left"
            /\ UNCHANGED session
    /\ UNCHANGED <<debug, GUI, available>>
    /\ UNCHANGED <<empty_points_indices, solutions, solutions_path, clearance, robot_joints,
                   collision_meshes, collision_free_solutions, write_output, outfile>>
    /\ UNCHANGED <<pvars, rvars, evars>>

\* p.setGravity(0, 0, -9.81), then the constructor's self.collision_meshes = []
ConnectSetGravity ==
    /\ fpc = "gravity"
    /\ collision_meshes' = <<>>
    /\ fpc' = "constructed"
    /\ UNCHANGED cvars
    /\ UNCHANGED <<empty_points_indices, solutions, solutions_path, clearance, session, robot_joints,
                   collision_free_solutions, write_output, outfile, ffault>>
    /\ UNCHANGED <<pvars, rvars, evars>>

ServerNext ==
    \/ ConnectTry
    \/ ConnectExcept
    \/ ConnectSetGravity

\* no PybulletServer is being constructed step by step
ServerIdle ==
    /\ debug = "False"
    /\ GUI = FALSE
    /\ available = <<{}, {}>>
    /\ attempts = <<>>

\* run_all.py is not running
RunAllIdle ==
    /\ stage = "idle"
    /\ returncodes = <<>>
    /\ earlier_run = FALSE
    /\ consumed = "none"

\* match_robot_pose is not being called
EditIdle ==
    /\ nested_solutions = <<>>
    /\ starting_config_rad = <<>>
    /\ tolerance = 0
    /\ njoints = 0
    /\ cleaned_solutions = <<>>
    /\ epc = "idle"

OthersIdle == ServerIdle /\ RunAllIdle /\ EditIdle

(***************************************************************************)
(* run_all.py: the three stages run as subprocesses, one after another     *)
(***************************************************************************)
\* the return codes a stage's process can end with
ReturnCodes == {0, 1}

\* the collision filter's process has ended: its __main__ block ran to its end
\* or an exception left it
FilterEnded == fpc = "exit" \/ (fpc = "left" /\ ffault # "none")

\* run_script(editing_script): subprocess.run returns when edit.py has ended,
\* with whatever return code it ended with; the code is only printed
RunEdit ==
    /\ stage = "edit"
    /\ \E rc \in ReturnCodes : returncodes' = Append(returncodes, rc)
    /\ stage' = "start_filter"
    /\ UNCHANGED <<earlier_run, consumed>>
    /\ UNCHANGED <<pvars, fvars, cvars, evars>>

\* run_script(collision_checking_script): subprocess.run starts the filter's
\* __main__ block on the data directory
RunFilter ==
    /\ stage = "start_filter"
    /\ stage' = "filter"
    /\ fpc' = "main"
    /\ UNCHANGED <<returncodes, earlier_run, consumed>>
    /\ UNCHANGED <<empty_points_indices, solutions, solutions_path, clearance, session, robot_joints,
                   collision_meshes, collision_free_solutions, write_output, outfile, ffault>>
    /\ UNCHANGED <<pvars, cvars, evars>>

\* subprocess.run returns from the filter's process: 0 if its __main__ block
\* ran to its end, 1 if an exception left it; the code is only printed
FilterReturns ==
    /\ stage = "filter"
    /\ FilterEnded
    /\ returncodes' = Append(returncodes, IF ffault = "none" THEN 0 ELSE 1)
    /\ stage' = "start_optimizer"
    /\ UNCHANGED <<earlier_run, consumed>>
    /\ UNCHANGED <<pvars, fvars, cvars, evars>>

\* run_script(graph_based_optimum_script): PathBuilder(data_path) loads the
\* youngest collision_free_solutions file of planned_motion/, whichever run wrote it
RunOptimizer ==
    /\ stage = "start_optimizer"
    /\ stage' = "optimizer"
    /\ consumed' = IF outfile.written THEN "this_run"
                   ELSE IF earlier_run THEN "earlier_run"
                   ELSE "no_file"
    /\ UNCHANGED <<returncodes, earlier_run>>
    /\ UNCHANGED <<pvars, fvars, cvars, evars>>

\* subprocess.run returns from the optimizer's process; without a file to load,
\* load_collision_free_solutions has raised on None.split
OptimizerReturns ==
    /\ stage = "optimizer"
    /\ \E rc \in (IF consumed = "no_file" THEN {1} ELSE ReturnCodes) :
          returncodes' = Append(returncodes, rc)
    /\ stage' = "done"
    /\ UNCHANGED <<earlier_run, consumed>>
    /\ UNCHANGED <<pvars, fvars, cvars, evars>>

RunAllNext ==
    \/ RunEdit
    \/ RunFilter
    \/ CCConnect
    \/ CCLoadRobot
    \/ CCLoadMeshes
    \/ CCCull
    \/ CCWrite
    \/ CCDisconnect
    \/ DeadPointCheck
    \/ FilterReturns
    \/ RunOptimizer
    \/ OptimizerReturns

\* python run_all.py on a data directory, with or without the files of an earlier run
RunAllStart ==
    /\ stage = "edit"
    /\ returncodes = <<>>
    /\ earlier_run \in BOOLEAN
    /\ consumed = "none"
    /\ solutions \in FilterInputs
    /\ solutions_path = TRUE
    /\ clearance \in [CandidateJoints -> [1..Len(SceneMeshes) -> Distances]]
    /\ session = "none"
    /\ robot_joints = RestJoints
    /\ collision_meshes = <<>>
    /\ collision_free_solutions = <<>>
    /\ write_output = FALSE
    /\ outfile = NoFile
    /\ fpc = "idle"
    /\ ffault = "none"
    /\ empty_points_indices = <<>>

(***************************************************************************)
(* edit.py: match_robot_pose                                               *)
(***************************************************************************)
\* joint angles of six-joint configurations, in whole units
EditConfigs == { <<0, 0, 0, 0, 0, 0>>, <<2, -2, 0, 0, 0, 9>>, <<3, 0, 0, 0, 0, 0>>,
                 <<0, 0, 0, 3, 0, 0>>, <<0, 0, 3, 0, 0, 0>> }

\* the starting configurations, the tolerance and the values of joints passed
EditStartingConfigs == { <<0, 0, 0, 0, 0, 0>>, <<1, 1, 1, 1, 1, 1>> }
EditTolerances == {2}
EditJoints == {3, 5}

\* is_within_range(value, center, tol): lower_bound <= value <= upper_bound
is_within_range(value, center, tol) == (center - tol <= value) /\ (value <= center + tol)

RECURSIVE MatchJoints(_, _, _, _, _, _, _)
\* for k in range(joints), from k on: append is cleared by an angle out of
\* range, and the configuration is appended in the pass k == 2 if append holds
MatchJoints(configuration, k, append, cleaned_point, tol, starting, njs) ==
    IF k >= njs THEN cleaned_point
    ELSE LET angle == configuration[k + 1]
             center == starting[k + 1]
             append2 == append /\ is_within_range(angle, center, tol)
         IN MatchJoints(configuration, k + 1, append2,
                        IF k = 2 /\ append2 THEN Append(cleaned_point, configuration)
                        ELSE cleaned_point,
                        tol, starting, njs)

RECURSIVE MatchConfigurations(_, _, _, _, _, _)
\* for _, configuration in enumerate(point), from the j-th on
MatchConfigurations(point, j, cleaned_point, tol, starting, njs) ==
    IF j > Len(point) THEN cleaned_point
    ELSE MatchConfigurations(point, j + 1,
                             MatchJoints(point[j], 0, TRUE, cleaned_point, tol, starting, njs),
                             tol, starting, njs)

RECURSIVE MatchPoints(_, _, _, _, _, _)
\* for i, point in enumerate(nested_solutions), from the i-th on
MatchPoints(nested, i, cleaned, tol, starting, njs) ==
    IF i > Len(nested) THEN cleaned
    ELSE MatchPoints(nested, i + 1,
                     Append(cleaned, MatchConfigurations(nested[i], 1, <<>>, tol, starting, njs)),
                     tol, starting, njs)

\* match_robot_pose(nested_solutions, tolerance, starting_config_rad, joints)
match_robot_pose(nested, tol, starting, njs) == MatchPoints(nested, 1, <<>>, tol, starting, njs)

\* the Solution Sets handed to match_robot_pose
EditInputs ==
    UNION { [1..n -> UNION { [1..m -> EditConfigs] : m \in 0..MaxConfigs }]
            : n \in 0..MaxFilterPoints }

\* match_robot_pose is about to be called
EditInit ==
    /\ nested_solutions \in EditInputs
    /\ starting_config_rad \in EditStartingConfigs
    /\ tolerance \in EditTolerances
    /\ njoints \in EditJoints
    /\ cleaned_solutions = <<>>
    /\ epc = "call"

\* matched_solutions = match_robot_pose(snapped_solutions, tolerance=..., starting_config_rad=...)
MatchRobotPose ==
    /\ epc = "call"
    /\ cleaned_solutions' = match_robot_pose(nested_solutions, tolerance, starting_config_rad, njoints)
    /\ epc' = "returned"
    /\ UNCHANGED <<nested_solutions, starting_config_rad, tolerance, njoints>>
    /\ UNCHANGED <<pvars, fvars, cvars, rvars>>

EditNext == MatchRobotPose

\* the other stage at rest
PathIdle ==
    /\ points = <<>>
    /\ heap = << >>
    /\ lift = 0
    /\ output_path = FALSE
    /\ nodes = << >>
    /\ edges = << >>
    /\ pc = "idle"
    /\ caller = "none"
    /\ iterations = NoneIter
    /\ it = 0
    /\ shortest_path = NonePath
    /\ shortest_path_length = Inf
    /\ self_shortest_path = NonePath
    /\ self_shortest_path_length = Inf
    /\ ret = NoRet
    /\ shortest_path_configurations = <<>>
    /\ file = NoFile
    /\ fault = "none"
    /\ tried = <<>>
    /\ futures = <<>>
    /\ interrupt = NoInterrupt
    /\ progress = <<>>
    /\ artifacts = NoArtifacts
    /\ original = << >>

FilterIdle ==
    /\ solutions = <<>>
    /\ solutions_path = FALSE
    /\ clearance = << >>
    /\ session = "none"
    /\ robot_joints = RestJoints
    /\ collision_meshes = <<>>
    /\ collision_free_solutions = <<>>
    /\ write_output = FALSE
    /\ outfile = NoFile
    /\ fpc = "idle"
    /\ ffault = "none"
    /\ empty_points_indices = <<>>

\* the Solution Set handed over in memory, the filter at rest
PathStart == PathInit /\ artifacts = NoArtifacts /\ FilterIdle /\ OthersIdle

\* PathBuilder(data_path) about to read its artifact files
LoadStart ==
    /\ PathInit
    /\ output_path = FALSE
    /\ artifacts \in [metadata : ArtifactStates, solutions : ArtifactStates,
                       lift_height : LiftHeights]
    /\ FilterIdle
    /\ OthersIdle

\* the __main__ block about to run on a data directory that holds both artifacts
MainStart ==
    /\ PathInit
    /\ output_path = FALSE
    /\ artifacts \in [metadata : {"found"}, solutions : {"found"},
                       lift_height : LiftHeights]
    /\ FilterIdle
    /\ OthersIdle

FilterStart == FilterInit /\ PathIdle /\ OthersIdle

\* collision_check has connected and loaded the robot and the meshes
FilterLoaded ==
    /\ solutions \in FilterInputs
    /\ solutions_path = TRUE
    /\ clearance \in [CandidateJoints -> [1..Len(SceneMeshes) -> Distances]]
    /\ session = "connected"
    /\ robot_joints = RestJoints
    /\ collision_meshes = SceneMeshes
    /\ collision_free_solutions = <<>>
    /\ write_output = FALSE
    /\ outfile = NoFile
    /\ fpc = "cull"
    /\ ffault = "none"
    /\ empty_points_indices = <<>>
    /\ PathIdle
    /\ OthersIdle

CullNext == CCCull

\* the __main__ block of collision_checking_pybullet.py about to run on a data
\* directory: CollisionCheck(data_path) has loaded the Solution Set from its file
FilterMainStart ==
    /\ solutions \in FilterInputs
    /\ solutions_path = TRUE
    /\ clearance \in [CandidateJoints -> [1..Len(SceneMeshes) -> Distances]]
    /\ session = "none"
    /\ robot_joints = RestJoints
    /\ collision_meshes = <<>>
    /\ collision_free_solutions = <<>>
    /\ write_output = FALSE
    /\ outfile = NoFile
    /\ fpc = "main"
    /\ ffault = "none"
    /\ empty_points_indices = <<>>
    /\ PathIdle
    /\ OthersIdle

\* the Path Optimizer on its own
Spec == PathStart /\ [][PathNext]_vars

\* the construction of the graph, thread by thread
SpecThreads == PathStart /\ [][ThreadsNext]_vars

\* the constructor reading the artifact files
SpecLoad == LoadStart /\ [][LoadNext]_vars

\* the __main__ block of graph_based_optimum.py, interrupts included
SpecMain == MainStart /\ [][MainNext]_vars

\* the __main__ block of collision_checking_pybullet.py
SpecFilterMain == FilterMainStart /\ [][FilterMainNext]_vars

\* the filter pass on its own, on a loaded scene
SpecFilter == FilterLoaded /\ [][CullNext]_vars

\* collision_check from connecting to disconnecting
SpecSession == FilterStart /\ [][FilterNext]_vars

\* the joint values of a Solution Set whose configurations differ in arity
RaggedConfigs == {<<0, 0, 0>>, <<1, 2>>}

\* PathBuilder.from_solutions(solutions) on such a Solution Set
RaggedStart ==
    /\ \E shape \in Shapes :
         /\ points = FreshPoints(shape)
         /\ heap \in [1..SumSizes(shape, Len(shape)) -> RaggedConfigs]
    /\ original = heap
    /\ lift \in LiftHeights
    /\ output_path = FALSE
    /\ nodes = << >>
    /\ edges = << >>
    /\ pc = "new"
    /\ caller = "none"
    /\ iterations = NoneIter
    /\ it = 0
    /\ shortest_path = NonePath
    /\ shortest_path_length = Inf
    /\ self_shortest_path = NonePath
    /\ self_shortest_path_length = Inf
    /\ ret = NoRet
    /\ shortest_path_configurations = <<>>
    /\ file = NoFile
    /\ fault = "none"
    /\ tried = <<>>
    /\ futures = <<>>
    /\ interrupt = NoInterrupt
    /\ progress = <<>>
    /\ artifacts = NoArtifacts
    /\ FilterIdle
    /\ OthersIdle

\* the construction of the graph, thread by thread, arities mixed
SpecArity == RaggedStart /\ [][ArityNext]_vars

\* either stage on its own input: the filter pass on a loaded scene, or the
\* Path Optimizer on a Solution Set handed over in memory
StagesStart == PathStart \/ FilterLoaded

StagesNext ==
    \/ CCCull
    \/ Construct
    \/ CallFind
    \/ ExhaustiveStep
    \/ SamplingStep
    \/ SamplingFault
    \/ Return
    \/ ExportFault
    \/ ExportStep
    \/ ExportWrite

SpecStages == StagesStart /\ [][StagesNext]_vars

\* run_all.py from its first stage to its last
PipelineStart == RunAllStart /\ PathIdle /\ ServerIdle /\ EditIdle

SpecRunAll == PipelineStart /\ [][RunAllNext]_vars

\* match_robot_pose on its own
EditStart == EditInit /\ PathIdle /\ FilterIdle /\ ServerIdle /\ RunAllIdle

SpecEdit == EditStart /\ [][EditNext]_vars

\* the construction of a PybulletServer, attempt by attempt
ConnectStart == ServerStart /\ PathIdle /\ RunAllIdle /\ EditIdle

SpecConnect == ConnectStart /\ [][ServerNext]_vars

(***************************************************************************)
(* Properties of the configuration graph.                                  *)
(***************************************************************************)
\* the graph exists: the constructor has returned
GraphBuilt == pc \notin {"new", "idle"}

\* no lift has been inserted yet: the configurations are those create_graph read
Pristine == shortest_path_configurations = <<>>

RECURSIVE L1From(_, _, _)
\* the sum over joints k.. of the absolute per-joint difference
L1From(a, b, k) ==
    IF k > Len(a) THEN 0
    ELSE (IF a[k] >= b[k] THEN a[k] - b[k] ELSE b[k] - a[k]) + L1From(a, b, k + 1)

L1Distance(a, b) == L1From(a, b, 1)

\* the joint values a node carries
ConfigOf(n) == heap[nodes[n].configuration]

\* C8: create_graph makes exactly one node per (point_index, configuration)
\* occurrence, numbered 0..N-1 in point-then-intra-point order: the node of
\* configuration j of Point i has id (number of configurations in the Points
\* before i) + j, and carries point = i and that configuration.
C8_NodeNumbering ==
    GraphBuilt =>
        /\ DOMAIN nodes = 0..(SumLens(points, Len(points)) - 1)
        /\ \A i \in 1..Len(points) : \A j \in 1..Len(points[i]) :
             nodes[SumLens(points, i - 1) + j - 1]
                = [configuration |-> points[i][j], point |-> i - 1]

\* a graph of three layers, the middle one empty, the outer ones of two nodes
C8_Witness ==
    /\ pc = "ready"
    /\ Len(points) = 3
    /\ Len(points[1]) = 2 /\ Len(points[2]) = 0 /\ Len(points[3]) = 2
    /\ nodes[3].point = 2

\* C9: in the graph create_graph returns there is an edge u -> v if and only
\* if point(v) = point(u) + 1: adjacent layers are completely connected and
\* there are no intra-layer, layer-skipping or backward edges.
C9_LayeredEdges ==
    GraphBuilt =>
        /\ DOMAIN edges \subseteq (DOMAIN nodes) \X (DOMAIN nodes)
        /\ \A u \in DOMAIN nodes : \A v \in DOMAIN nodes :
             (<<u, v>> \in DOMAIN edges) <=> (nodes[v].point = nodes[u].point + 1)

\* three non-empty layers, two nodes in the middle one, the graph built
C9_Witness ==
    /\ pc = "ready"
    /\ Len(points) = 3
    /\ Len(points[1]) = 1 /\ Len(points[2]) = 2 /\ Len(points[3]) = 2
    /\ <<0, 1>> \in DOMAIN edges /\ <<2, 4>> \in DOMAIN edges

\* C10: the weight of every edge (u, v) create_graph builds is the L1 distance
\* of the two configurations (6 for [0,0,0] and [1,2,-3]); it is non-negative,
\* and zero exactly when the two configurations are equal.
C10_L1Weights ==
    (GraphBuilt /\ Pristine) =>
        \A e \in DOMAIN edges :
            /\ edges[e] = L1Distance(ConfigOf(e[1]), ConfigOf(e[2]))
            /\ edges[e] >= 0
            /\ (edges[e] = 0) <=> (ConfigOf(e[1]) = ConfigOf(e[2]))
            /\ (ConfigOf(e[1]) = <<0, 0, 0>> /\ ConfigOf(e[2]) = <<1, 2, -3>>)
                  => edges[e] = 6

\* an edge from [0,0,0] to [1,2,-3], one back the other way, and one of weight 0
C10_Witness ==
    /\ pc = "ready"
    /\ \E e \in DOMAIN edges :
         ConfigOf(e[1]) = <<0, 0, 0>> /\ ConfigOf(e[2]) = <<1, 2, -3>> /\ edges[e] = 6
    /\ \E e \in DOMAIN edges :
         ConfigOf(e[1]) = <<1, 2, -3>> /\ ConfigOf(e[2]) = <<1, 0, 0>>
    /\ \E e \in DOMAIN edges : edges[e] = 0

(***************************************************************************)
(* Properties of the threaded construction.                                *)
(***************************************************************************)
\* the edges the task of future k has written so far
WrittenBy(k) == { TaskEdge(futures[k], n) : n \in 0..(futures[k].n - 1) }

\* C11: whatever the order in which the pool runs the edge-building tasks,
\* create_graph returns the node numbering and the weighted edges that
\* running the tasks one after the other gives; and at no moment have two
\* tasks written the same edge.
C11_InterleavingIndependent ==
    /\ (pc = "ready") =>
          /\ nodes = GraphNodes(points)
          /\ edges = GraphEdges(nodes, heap, Len(points))
    /\ \A k \in 1..Len(futures) : \A l \in 1..Len(futures) :
          (k # l) => (WrittenBy(k) \cap WrittenBy(l) = {})

\* two tasks of four edges each under way at once, the later one ahead
C11_Witness ==
    /\ pc = "submit"
    /\ Len(futures) = 2
    /\ TaskSize(futures[1]) = 4 /\ TaskSize(futures[2]) = 4
    /\ futures[1].state = "running" /\ futures[1].n = 1
    /\ futures[2].state = "running" /\ futures[2].n = 3

\* C12: when create_graph returns the graph, every layer pair's task has been
\* submitted and has finished all of its edges: none is pending or running.
C12_ReturnAfterAllTasks ==
    (pc = "ready") =>
        /\ Len(futures) = (IF Len(points) = 0 THEN 0 ELSE Len(points) - 1)
        /\ \A k \in 1..Len(futures) :
             /\ futures[k].state = "finished"
             /\ futures[k].n = TaskSize(futures[k])

\* the graph returned after two tasks, the first of two edges, the second of four
C12_Witness ==
    /\ pc = "ready"
    /\ Len(futures) = 2
    /\ TaskSize(futures[1]) = 2 /\ TaskSize(futures[2]) = 4
    /\ \A e \in WrittenBy(1) \cup WrittenBy(2) : e \in DOMAIN edges

(***************************************************************************)
(* Properties of the search.                                               *)
(***************************************************************************)
\* find_shortest_path has just returned: nothing has been exported yet
JustReturned == ret.set /\ Pristine

AllPointsNonEmpty == \A i \in 1..Len(points) : Len(points[i]) >= 1

\* the ways of choosing one configuration per Point
Choices ==
    { c \in [1..Len(points) -> 1..MaxConfigs] : \A i \in 1..Len(points) : c[i] <= Len(points[i]) }

RECURSIVE ChoiceCostFrom(_, _)
\* the L1 distances between the configurations chosen for consecutive Points, summed
ChoiceCostFrom(c, i) ==
    IF i >= Len(points) THEN 0
    ELSE L1Distance(heap[points[i][c[i]]], heap[points[i + 1][c[i + 1]]])
         + ChoiceCostFrom(c, i + 1)

ChoiceCost(c) == ChoiceCostFrom(c, 1)

\* the choice a list of node ids stands for, if it picks one node per layer in order
IsChoice(ids, c) ==
    /\ Len(ids) = Len(points)
    /\ \A k \in 1..Len(ids) :
         /\ ids[k] \in DOMAIN nodes
         /\ nodes[ids[k]].point = k - 1
         /\ nodes[ids[k]].configuration = points[k][c[k]]

\* C1: with at least two Points, all non-empty, find_shortest_path with
\* iterations=None returns a cost equal to the minimum, over all ways of
\* choosing one configuration per Point, of the summed L1 distances between the
\* configurations of consecutive Points, and a path that attains it.
C1_ExhaustiveOptimal ==
    (JustReturned /\ iterations.none /\ Len(points) >= 2 /\ AllPointsNonEmpty) =>
        /\ ret.length.finite
        /\ \A c \in Choices : ret.length.val <= ChoiceCost(c)
        /\ ret.path.some
        /\ \E c \in Choices : IsChoice(ret.path.ids, c) /\ ChoiceCost(c) = ret.length.val

\* exhaustive mode has returned on three full layers where the first pair
\* evaluated is not the best one
C1_Witness ==
    /\ JustReturned /\ iterations.none
    /\ Len(points) = 3
    /\ \A i \in 1..3 : Len(points[i]) = 2
    /\ ret.path.some /\ ret.path.ids[1] # 0
    /\ ret.length.finite /\ ret.length.val > 0

\* C2: when no (start, end) pair tried has a connecting path, the optimizer
\* reports a distinct failure; it does not return a result that carries the
\* sentinel cost (an infinite cost paired with an absent path).
C2_NoSentinelReturn ==
    (ret.set /\ it >= 1 /\ ~ret.path.some) => ret.length.finite

\* an empty Point between a non-empty first and a non-empty last Point
EmptyMiddlePoint ==
    /\ Len(points) >= 3
    /\ Len(points[1]) >= 1 /\ Len(points[Len(points)]) >= 1
    /\ \E i \in 2..(Len(points) - 1) : Len(points[i]) = 0

\* C3: for a Solution Set with an empty middle Point the optimizer, in either
\* mode and through find_shortest_path_and_save, never ends in an unhandled
\* fault and never yields an empty path with zero cost.
C3_EmptyPointNoFault ==
    EmptyMiddlePoint =>
        /\ fault \notin {"TypeError", "IndexError"}
        /\ ~(ret.set /\ ret.path.some /\ ret.path.ids = <<>>)

\* the node a path starts at and the node it ends at
Ends(ids) == << ids[1], ids[Len(ids)] >>

RECURSIVE PathWeight(_, _)
\* the weights of the edges between consecutive nodes of ids, from the k-th on, summed
PathWeight(ids, k) ==
    IF k >= Len(ids) THEN 0 ELSE edges[<<ids[k], ids[k + 1]>>] + PathWeight(ids, k + 1)

\* C13: a path find_shortest_path returns, in either mode, has exactly
\* num_points node ids, its k-th node lies in layer k, consecutive nodes are
\* joined by an edge, and the returned cost is the sum of those edges' weights.
C13_PathShape ==
    (ret.set /\ ret.path.some) =>
        /\ Len(ret.path.ids) = Len(points)
        /\ \A k \in 1..Len(ret.path.ids) :
             /\ ret.path.ids[k] \in DOMAIN nodes
             /\ nodes[ret.path.ids[k]].point = k - 1
        /\ \A k \in 1..(Len(ret.path.ids) - 1) :
             <<ret.path.ids[k], ret.path.ids[k + 1]>> \in DOMAIN edges
        /\ ret.length = Fin(PathWeight(ret.path.ids, 1))

\* sampling mode has returned a path through three layers of two nodes at a cost above 0
C13_Witness ==
    /\ ret.set /\ ~iterations.none
    /\ Len(points) = 3
    /\ \A i \in 1..3 : Len(points[i]) = 2
    /\ ret.path.some /\ Len(ret.path.ids) = 3
    /\ ret.length.finite /\ ret.length.val > 0

\* C14: whatever K >= 1 and whatever pairs are drawn, the cost sampling mode
\* reports is not below the cost exhaustive mode reports on the same Solution
\* Set, nor below the cost of the cheapest one-configuration-per-Point choice.
C14_SamplingNotBelowExhaustive ==
    (JustReturned /\ ~iterations.none) =>
        /\ ~(ret.length.finite /\ LessThan(ret.length, ExhaustiveLength))
        /\ ret.length.finite => \E c \in Choices : ChoiceCost(c) <= ret.length.val

\* sampling mode has returned a cost strictly above the exhaustive one
C14_Witness ==
    /\ JustReturned /\ ~iterations.none /\ iterations.n = 2
    /\ Len(points) = 3
    /\ ret.length.finite /\ ExhaustiveLength.finite
    /\ ret.length.val > ExhaustiveLength.val

\* the (start, end) pairs there are, and those drawn so far
AllPairs == Rung(nodes, 0) \X Rung(nodes, Len(points) - 1)
Drawn == { tried[k] : k \in 1..Len(tried) }

\* a <= b on costs
CostLeq(a, b) == (~b.finite) \/ (a.finite /\ a.val <= b.val)

\* C15: on a Solution Set with all Points non-empty, once the draws of
\* sampling mode have covered every (start, end) pair the best cost held by
\* the search is the exhaustive optimum, and it stays so; and no iteration
\* ever raises the best cost.
C15_SamplingConverges ==
    /\ []((pc = "search" /\ ~iterations.none /\ Len(points) >= 1 /\ AllPointsNonEmpty
              /\ AllPairs \subseteq Drawn) =>
            /\ shortest_path_length = ExhaustiveLength
            /\ shortest_path_length.finite
            /\ \A c \in Choices : shortest_path_length.val <= ChoiceCost(c))
    /\ [][(pc = "search" /\ pc' = "search") =>
            CostLeq(shortest_path_length', shortest_path_length)]_vars

\* both pairs of a three-layer Solution Set drawn, the optimum found by the second draw
C15_Witness ==
    /\ pc = "search" /\ ~iterations.none
    /\ Len(points) = 3 /\ AllPointsNonEmpty
    /\ Len(tried) = 2 /\ tried[1] # tried[2]
    /\ AllPairs \subseteq Drawn
    /\ shortest_path.some /\ Ends(shortest_path.ids) = tried[2]
    /\ shortest_path_length = ExhaustiveLength

\* C16: with iterations=None every (layer-0 node, last-layer node) pair is
\* evaluated exactly once; with K >= 1 the call evaluates exactly K pairs, each
\* start from layer 0 and each end from the last layer, and then returns
\* (checked for Solution Sets of two Points or more, the last one non-empty).
C16_PairsEvaluated ==
    /\ (ret.set /\ iterations.none) =>
          /\ Len(tried) = Cardinality(AllPairs)
          /\ Drawn = AllPairs
    /\ (pc \in {"returned", "export", "saved", "fault"} /\ ~iterations.none
           /\ Len(points) >= 2 /\ Len(points[Len(points)]) >= 1) =>
          /\ ret.set
          /\ Len(tried) = iterations.n
          /\ Drawn \subseteq AllPairs

\* C17: the exported Path Result has one entry per Point, in visiting order,
\* and its k-th entry is the lift followed by the original joint values, in
\* their order, of the k-th node of the winning path (lift 5 and [1,2,-3]
\* give [5,1,2,-3]).
C17_ExportedLiftPrepended ==
    file.written =>
        /\ Len(file.data) = Len(points)
        /\ Len(file.data) = Len(self_shortest_path.ids)
        /\ \A k \in 1..Len(file.data) :
             /\ file.data[k] = <<lift>> \o original[nodes[self_shortest_path.ids[k]].configuration]
             /\ (original[nodes[self_shortest_path.ids[k]].configuration] = <<1, 2, -3>> /\ lift = 5)
                   => file.data[k] = <<5, 1, 2, -3>>

\* a Path Result of three entries written, the first of them [5,1,2,-3]
C17_Witness ==
    /\ file.written
    /\ Len(file.data) = 3
    /\ file.data[1] = <<5, 1, 2, -3>>
    /\ file.data[2] # file.data[1]

(***************************************************************************)
(* Properties of the __main__ block and of the constructor.                *)
(***************************************************************************)
\* C18: a KeyboardInterrupt at any point of the run, the construction of the
\* PathBuilder included, leaves the handler without a fault; and an
\* interrupted run that had found a path ends with that path exported.
C18_InterruptHandled ==
    /\ interrupt.raised => fault = "none"
    /\ (interrupt.raised /\ self_shortest_path.some /\ pc \in {"saved", "exited"}) =>
          /\ file.written
          /\ Len(file.data) = Len(self_shortest_path.ids)

\* an artifact file the constructor looks for is not there to be read
MissingArtifact ==
    \/ artifacts.metadata \in {"missing", "unreadable"}
    \/ artifacts.solutions \in {"missing", "unreadable"}

\* C20: when the metadata JSON or the collision-free-solutions JSON cannot be
\* found or read, the construction of a PathBuilder from a data path fails: it
\* does not go on to a built graph with substitute values (checked for
\* Solution Sets of one Point or more).
C20_MissingArtifactFatal ==
    (MissingArtifact /\ Len(points) >= 1) => pc # "ready"

(***************************************************************************)
(* Properties of the collision filter.                                     *)
(***************************************************************************)
\* cull_collisions has just returned into collision_check
Culled == fpc \in {"write", "disconnect"}

\* the joint state of the robot set to a configuration of full arity
JointsAt(c) == [i \in JointIndices |-> IF i = 0 THEN 0 ELSE c[i]]

\* the filter's verdict: no obstacle body returns a closest point
JudgedFree(c) ==
    \A k \in 1..Len(collision_meshes) : clearance[JointsAt(c)][collision_meshes[k]] > 0

\* no obstacle body is penetrated: no closest-point distance strictly below 0
PenetrationFree(c) ==
    \A k \in 1..Len(collision_meshes) : clearance[JointsAt(c)][collision_meshes[k]] >= 0

\* the values a sequence holds
Range(q) == { q[k] : k \in 1..Len(q) }

\* C4: cull_collisions(S) has as many Points as S, and its i-th Point is the
\* order-preserving subsequence of S's i-th Point made of exactly the
\* configurations judged collision-free; so per Point the output is no longer
\* than the input and holds no configuration the input Point did not hold.
C4_OrderPreservingFilter ==
    Culled =>
        /\ Len(collision_free_solutions) = Len(solutions)
        /\ \A i \in 1..Len(solutions) :
             /\ collision_free_solutions[i] = SelectSeq(solutions[i], JudgedFree)
             /\ Len(collision_free_solutions[i]) <= Len(solutions[i])
             /\ Range(collision_free_solutions[i]) \subseteq Range(solutions[i])

\* a first Point that loses its first configuration and a second Point that
\* keeps both of its configurations
C4_Witness ==
    /\ Culled
    /\ Len(solutions) = 2
    /\ Len(solutions[1]) = 2 /\ solutions[1][1] # solutions[1][2]
    /\ collision_free_solutions[1] = << solutions[1][2] >>
    /\ Len(collision_free_solutions[2]) = 2

\* C5: a configuration is kept if and only if, with the robot set to it, no
\* obstacle body has a closest-point pair with the robot at a distance
\* strictly below 0; one whose smallest distance is exactly 0 is kept.
C5_KeptIffNoPenetration ==
    Culled =>
        \A i \in 1..Len(solutions) :
            collision_free_solutions[i] = SelectSeq(solutions[i], PenetrationFree)

C7_SessionReleased ==
    (fpc = "left") => session # "connected"

\* the verdict of the filter on Point i (from 0) of the input: nothing survives
DeadPoint(i) == SelectSeq(solutions[i + 1], JudgedFree) = <<>>

\* C19: when the filter's __main__ block ends after a filter run, the reported
\* index list is exactly the indices of the Points left empty, each once; the
\* written output has one entry per input Point, empty for the dead ones, and
\* was written before any failure was raised; and the run ends in ValueError
\* exactly when the list is non-empty.
C19_DeadPointsReported ==
    (fpc = "exit") =>
        /\ Range(empty_points_indices) = { i \in 0..(Len(solutions) - 1) : DeadPoint(i) }
        /\ Len(empty_points_indices) = Cardinality(Range(empty_points_indices))
        /\ outfile.written
        /\ Len(outfile.data) = Len(solutions)
        /\ \A i \in 0..(Len(solutions) - 1) : (outfile.data[i + 1] = <<>>) <=> DeadPoint(i)
        /\ (ffault = "ValueError") <=> (empty_points_indices # <<>>)
        /\ ffault \in {"none", "ValueError"}

\* a run that ends in ValueError for the second of two Points, which went in
\* with two candidates and came out with none, the first Point keeping one
C19_Witness ==
    /\ fpc = "exit"
    /\ ffault = "ValueError"
    /\ empty_points_indices = <<1>>
    /\ Len(solutions[2]) = 2
    /\ Len(outfile.data) = 2 /\ Len(outfile.data[1]) = 1 /\ outfile.data[2] = <<>>

(***************************************************************************)
(* Properties of PybulletServer.connect.                                   *)
(***************************************************************************)
\* C21: when the first attempt to connect fails, connect() tries at most once
\* more, that second attempt is made in DIRECT mode whatever debug and gui
\* asked for, and when it fails too the error leaves the constructor with no
\* session open and no later step of the constructor run
C21_RetryOnceInDirect ==
    /\ Len(attempts) <= 2
    /\ (Len(attempts) = 2) => (attempts[2] = "DIRECT")
    /\ (Len(attempts) = 2 /\ fpc \notin {"gravity", "constructed"})
          => (fpc = "left" /\ ffault = "pybullet.error" /\ session = "none")
    /\ (fpc \in {"gravity", "constructed"}) => (session = "connected")

(***************************************************************************)
(* What the stages leave alone.                                            *)
(***************************************************************************)
\* the configuration list object ref belongs to a node of self.shortest_path
OnChosenPath(ref) ==
    /\ self_shortest_path.some
    /\ \E k \in 1..Len(self_shortest_path.ids) :
          nodes[self_shortest_path.ids[k]].configuration = ref

\* C22: cull_collisions leaves the Solution Set it is given as it was;
\* find_shortest_path leaves self.points, the configurations and the graph's
\* nodes, edges and weights as they were; build_path_to_json changes nothing
\* but the configurations of nodes on the chosen path, by prepending the lift
C22_FrameOfTheStages ==
    [][ /\ (fpc = "cull") => (solutions' = solutions)
        /\ (pc = "search") =>
              (points' = points /\ heap' = heap /\ nodes' = nodes /\ edges' = edges)
        /\ (pc = "export") =>
              /\ points' = points /\ nodes' = nodes /\ edges' = edges
              /\ DOMAIN heap' = DOMAIN heap
              /\ \A ref \in DOMAIN heap :
                    (heap'[ref] # heap[ref])
                       => (OnChosenPath(ref) /\ heap'[ref] = <<lift>> \o heap[ref])
      ]_vars

\* an export has lifted the configurations of the chosen path and left a
\* configuration off the path as it was
C22_Witness ==
    /\ pc = "saved"
    /\ \E ref \in DOMAIN heap : OnChosenPath(ref) /\ heap[ref] # original[ref]
    /\ \E ref \in DOMAIN heap : ~OnChosenPath(ref) /\ heap[ref] = original[ref]
    /\ Len(tried) > 1

RECURSIVE Flatten(_, _)
\* the configurations of the Points from Point i on, in order
Flatten(pts, i) == IF i > Len(pts) THEN <<>> ELSE pts[i] \o Flatten(pts, i + 1)

\* the reorderings of n positions
Reorderings(n) ==
    { q \in [1..n -> 1..n] : \A a, b \in 1..n : (q[a] = q[b]) => (a = b) }

\* the verdict the pass gave: the configuration is among those it kept
KeptByThePass(c) ==
    \E i \in 1..Len(collision_free_solutions) : c \in Range(collision_free_solutions[i])

\* C23: the verdict cull_collisions gives a configuration does not depend on
\* the configurations tested before it: tested in any other order, and from
\* the joint state the pass itself left behind as well as from rest, every
\* configuration of the Solution Set gets the verdict the pass gave it
C23_VerdictOrderIndependent ==
    Culled =>
        LET all == Flatten(solutions, 1)
        IN \A q \in Reorderings(Len(all)) :
             \A start \in {RestJoints, robot_joints} :
                LET reordered == [k \in 1..Len(all) |-> all[q[k]]]
                IN CullConfigs(clearance, collision_meshes, reordered, 1, start, <<>>).configs
                      = SelectSeq(reordered, KeptByThePass)

\* a Point of two different configurations of which the pass kept the first
\* and dropped the second, tested after another Point's configurations
C23_Witness ==
    /\ Culled
    /\ Len(solutions) = 2
    /\ Len(solutions[1]) >= 1
    /\ Len(solutions[2]) = 2
    /\ solutions[2][1] # solutions[2][2]
    /\ collision_free_solutions[2] = << solutions[2][1] >>

(***************************************************************************)
(* Pairs without a connecting path.                                        *)
(***************************************************************************)
\* a Point strictly between the first and the last has no configuration
EmptyIntermediateLayer ==
    \E i \in 2..(Len(points) - 1) : Len(points[i]) = 0

\* the (start, end) pair has no connecting path in the built graph
Unconnected(pair) == dijkstra_path_length(edges, pair[1], pair[2]).raised

\* C24: for a Solution Set of any number of Points, one included, a
\* (layer-0 node, last-layer node) pair has no connecting path only when some
\* intermediate layer is empty; when no layer is empty every pair has a path
C24_NoPathOnlyIfEmptyLayer ==
    GraphBuilt =>
        \A pair \in AllPairs : Unconnected(pair) => EmptyIntermediateLayer

\* C24, amended: a pair has no connecting path exactly when some intermediate
\* layer is empty or, the Solution Set having one Point only, the pair is
\* made of two different nodes of that Point; so with at least two Points and
\* no empty layer every pair has a path
C24_NoPathCauses ==
    GraphBuilt =>
        \A pair \in AllPairs :
            Unconnected(pair) <=>
                \/ EmptyIntermediateLayer
                \/ (Len(points) = 1 /\ pair[1] # pair[2])

\* the search has tried a pair that an empty intermediate layer cuts off, and
\* returned
C24_Witness ==
    /\ pc = "returned"
    /\ EmptyIntermediateLayer
    /\ Len(tried) = 4
    /\ \A k \in 1..Len(tried) : Unconnected(tried[k])

\* C25: a pair with no connecting path is skipped without ending the search:
\* the step that evaluates it leaves the best path and cost as they were and
\* the loop goes on, so that when the search returns every pair (exhaustive
\* mode) or every iteration (sampling mode) has been evaluated
C25_NoPathPairSkipped ==
    /\ [](ret.set =>
            IF iterations.none
            THEN Len(tried) = Len(first_point_nodes) * Len(last_point_nodes)
            ELSE Len(tried) = iterations.n)
    /\ [][ (pc = "search" /\ Len(tried') = Len(tried) + 1 /\ Unconnected(tried'[Len(tried')]))
             => /\ shortest_path' = shortest_path
                /\ shortest_path_length' = shortest_path_length
                /\ self_shortest_path' = self_shortest_path
                /\ it' = it + 1
                /\ pc' = "search"
                /\ fault' = fault
         ]_vars

\* an exhaustive search that held a best path, skipped a pair with no path,
\* went on to the remaining pairs and returned the path it held
C25_Witness ==
    /\ ret.set
    /\ ret.path.some
    /\ iterations.none
    /\ Len(tried) >= 3
    /\ ~Unconnected(tried[1])
    /\ Unconnected(tried[2])
    /\ ret.path.ids = << tried[1][1] >>

(***************************************************************************)
(* The progress reports of find_shortest_path.                             *)
(***************************************************************************)
\* the costs reported so far decrease strictly
StrictlyDecreasing(q) == \A k \in 1..(Len(q) - 1) : q[k] > q[k + 1]

\* C26: each time an evaluated pair costs strictly less than the best so far,
\* exactly one "found a shorter path" report is emitted, with that cost, and
\* self.shortest_path is set to that pair's path; no other step emits a
\* report; so the reported costs decrease strictly and the last of them is
\* the cost find_shortest_path returns
C26_ProgressReports ==
    /\ [](/\ StrictlyDecreasing(progress)
          /\ ret.set =>
                IF progress = <<>> THEN ~ret.length.finite
                ELSE ret.length = Fin(progress[Len(progress)]))
    /\ [][ IF pc = "search" /\ Len(tried') = Len(tried) + 1
           THEN LET pair == tried'[Len(tried')]
                    r == dijkstra_path_length(edges, pair[1], pair[2])
                    lower == (~r.raised) /\
                             ((~shortest_path_length.finite) \/ r.length < shortest_path_length.val)
                IN IF lower
                   THEN /\ progress' = Append(progress, r.length)
                        /\ self_shortest_path'.some
                        /\ Ends(self_shortest_path'.ids) = pair
                        /\ PathWeight(self_shortest_path'.ids, 1) = r.length
                   ELSE progress' = progress
           ELSE Len(progress') <= Len(progress)
         ]_vars

\* a search that reported two costs, evaluated a pair without a report, and
\* returned the cost reported last
C26_Witness ==
    /\ ret.set
    /\ Len(progress) = 2
    /\ Len(tried) > 2
    /\ ret.length = Fin(progress[2])

(***************************************************************************)
(* Repeated exports.                                                       *)
(***************************************************************************)
\* C27: whatever find_shortest_path and build_path_to_json calls were made on
\* the PathBuilder, an export interrupted part-way and made again by the
\* interrupt handler included, every exported configuration holds the lift
\* once: it is one longer than the joint values the node was given
C27_LiftExactlyOnce ==
    file.written =>
        \A k \in 1..Len(file.data) :
            Len(file.data[k]) = Len(original[shortest_path_configurations[k]]) + 1

(***************************************************************************)
(* Edge-building tasks that fail.                                          *)
(***************************************************************************)
\* the pairs of nodes of consecutive layers
LayerPairs ==
    { e \in (DOMAIN nodes) \X (DOMAIN nodes) : nodes[e[2]].point = nodes[e[1]].point + 1 }

\* C28: when an edge-building task fails, as on two configurations of
\* different arity, create_graph does not return a graph with edges missing:
\* it returns only with no task failed and every pair of nodes of consecutive
\* layers joined
C28_TaskFailureReachesCaller ==
    (pc = "ready") =>
        /\ \A k \in 1..Len(futures) : futures[k].state # "failed"
        /\ DOMAIN edges = LayerPairs

(***************************************************************************)
(* Properties of run_all.py.                                               *)
(***************************************************************************)
\* C29: run_all runs edit, the collision filter and the path optimizer in
\* that order, each started only after the one before has ended; and the path
\* optimizer is started only if the collision filter of the same run ended
\* with success, so it never loads the collision-free-solutions file of an
\* earlier run
C29_StagesInOrderAndGated ==
    /\ (fpc # "idle") => (Len(returncodes) >= 1)
    /\ (stage \in {"optimizer", "done"}) => (Len(returncodes) >= 2 /\ FilterEnded)
    /\ (stage \in {"optimizer", "done"}) => (returncodes[2] = 0)
    /\ consumed # "earlier_run"

(***************************************************************************)
(* Properties of match_robot_pose.                                         *)
(***************************************************************************)
\* each of the first `joints` angles lies within the tolerance of the
\* starting configuration's angle
AllJointsWithin(configuration) ==
    \A k \in 1..njoints :
        /\ starting_config_rad[k] - tolerance <= configuration[k]
        /\ configuration[k] <= starting_config_rad[k] + tolerance

\* C30: match_robot_pose keeps a configuration exactly when each of its first
\* `joints` angles lies within the tolerance of the starting configuration's;
\* every kept configuration appears once, the order of the Points and within
\* each Point is kept, and the output has one Point per input Point
C30_KeptIffAllJointsWithin ==
    (epc = "returned") =>
        /\ Len(cleaned_solutions) = Len(nested_solutions)
        /\ \A i \in 1..Len(nested_solutions) :
             cleaned_solutions[i] = SelectSeq(nested_solutions[i], AllJointsWithin)

=============================================================================
